---- MODULE Spec2Model ----
(***************************************************************************)
(* Model of the njalla-webhook adapter: the zone resolver, the domain      *)
(* allow-list, the per-endpoint create/update/delete helpers and the       *)
(* apply_changes batch orchestrator of src/webhook/handlers.rs, the        *)
(* get_records handler, the record translator of src/webhook/types.rs and  *)
(* the request id counter of src/njalla/types.rs.                          *)
(*                                                                         *)
(* Strings are sequences of one-character strings, so that ends_with,      *)
(* split('.') and slicing are computed as the Rust code computes them.     *)
(* Option<T> is a sequence of length 0 (None) or 1 (Some).                 *)
(***************************************************************************)
EXTENDS Integers, Sequences, FiniteSets, TLC

\* ------------------------------------------------------------------------
\* Bounds of the model
\* ------------------------------------------------------------------------
MaxLen == 5

\* most entries of one batch: |delete| + max(|updateOld|, |updateNew|) + |create|
MaxBatch == 3

\* ------------------------------------------------------------------------
\* Strings
\* ------------------------------------------------------------------------
Chars == {"a", "b", "."}

Dot == "."

RECURSIVE StringsOfLen(_)
StringsOfLen(n) ==
    IF n = 0 THEN {<<>>}
    ELSE {Append(s, c) : s \in StringsOfLen(n - 1), c \in Chars}

StringsUpTo(n) == UNION {StringsOfLen(k) : k \in 0..n}

None == <<>>

Some(x) == <<x>>

\* str::ends_with
ends_with(s, suffix) ==
    /\ Len(suffix) <= Len(s)
    /\ SubSeq(s, Len(s) - Len(suffix) + 1, Len(s)) = suffix

\* str::split('.') collected into a Vec: always at least one part
RECURSIVE split(_)
split(s) ==
    IF \A i \in 1..Len(s) : s[i] # Dot THEN <<s>>
    ELSE LET i == CHOOSE k \in 1..Len(s) :
                      /\ s[k] = Dot
                      /\ \A j \in 1..(k - 1) : s[j] # Dot
         IN <<SubSeq(s, 1, i - 1)>> \o split(SubSeq(s, i + 1, Len(s)))

\* ------------------------------------------------------------------------
\* Errors and results (src/error.rs)
\* ------------------------------------------------------------------------
NoError == [kind |-> "None", arg |-> <<>>]

Error(k, a) == [kind |-> k, arg |-> a]

Ok(v) == [ok |-> TRUE, val |-> v, err |-> NoError]

Err(e) == [ok |-> FALSE, val |-> <<>>, err |-> e]

\* ------------------------------------------------------------------------
\* Config::is_domain_allowed (src/config.rs)
\* ------------------------------------------------------------------------
is_domain_allowed(cfg, domain) ==
    IF cfg.domain_filter = None THEN TRUE
    ELSE LET filter == cfg.domain_filter[1]
         IN \E i \in 1..Len(filter) : ends_with(domain, filter[i])

\* ------------------------------------------------------------------------
\* WebhookHandler::extract_zone and extract_record_name
\* ------------------------------------------------------------------------
\* the condition of the if inside the loop over the configured domains
zone_matches(dns_name, domain) ==
    \/ dns_name = domain
    \/ ends_with(dns_name, <<Dot>> \o domain)

\* a resolver in which the last matching configured domain wins
extract_zone_last_match(cfg, name) ==
    LET domains == IF cfg.domain_filter = None THEN <<>> ELSE cfg.domain_filter[1]
        hits    == {i \in 1..Len(domains) : zone_matches(name, domains[i])}
        parts   == split(name)
        n       == Len(parts)
    IN IF hits # {}
       THEN Ok(domains[CHOOSE i \in hits : \A j \in hits : i >= j])
       ELSE IF n >= 2
            THEN Ok(parts[n - 1] \o <<Dot>> \o parts[n])
            ELSE Err(Error("InvalidRequest", name))

extract_zone(cfg, dns_name) ==
    LET domains == IF cfg.domain_filter = None THEN <<>> ELSE cfg.domain_filter[1]
        hits    == {i \in 1..Len(domains) : zone_matches(dns_name, domains[i])}
        parts   == split(dns_name)
        n       == Len(parts)
    IN IF hits # {}
       THEN Ok(domains[CHOOSE i \in hits : \A j \in hits : i <= j])
       ELSE IF n >= 2
            THEN Ok(parts[n - 1] \o <<Dot>> \o parts[n])
            ELSE Err(Error("InvalidRequest", dns_name))

extract_record_name(dns_name, zone) ==
    IF dns_name = zone THEN <<>>
    ELSE IF ends_with(dns_name, <<Dot>> \o zone)
         THEN SubSeq(dns_name, 1, Len(dns_name) - Len(zone) - 1)
         ELSE dns_name

\* ------------------------------------------------------------------------
\* Provider Gateway calls (src/njalla/client.rs), as they appear on the wire
\* ------------------------------------------------------------------------
ListRecordsCall(domain) ==
    [method |-> "list-records", domain |-> domain, params |-> <<>>]

\* njalla::AddRecordRequest sent by Client::add_record
AddRecordCall(request) ==
    [method |-> "add-record", domain |-> request.domain,
     params |-> <<request.name, request.record_type, request.content,
                  request.ttl, request.priority>>]

\* njalla::RemoveRecordRequest sent by Client::remove_record
RemoveRecordCall(request) ==
    [method |-> "remove-record", domain |-> request.domain, params |-> <<request.id>>]

\* ------------------------------------------------------------------------
\* u32 values. A u32 is held as two 16-bit limbs, [hi, lo], standing for
\* hi * 65536 + lo, so that the full 32-bit width is kept.
\* ------------------------------------------------------------------------
Limb == 65536

DefaultTtl == 3600

\* `n as u32` for a signed n: the value modulo 2^32
as_u32(n) == [hi |-> (n \div Limb) % Limb, lo |-> n % Limb]

DigitValue(c) ==
    CASE c = "0" -> 0 [] c = "1" -> 1 [] c = "2" -> 2 [] c = "3" -> 3
      [] c = "4" -> 4 [] c = "5" -> 5 [] c = "6" -> 6 [] c = "7" -> 7
      [] c = "8" -> 8 [] c = "9" -> 9 [] OTHER -> -1

\* the checked accumulation of decimal digits: None on overflow of u32
RECURSIVE DecimalValue(_)
DecimalValue(s) ==
    IF s = <<>> THEN Some([hi |-> 0, lo |-> 0])
    ELSE LET front == DecimalValue(SubSeq(s, 1, Len(s) - 1))
         IN IF front = None THEN None
            ELSE LET lo == front[1].lo * 10 + DigitValue(s[Len(s)])
                     hi == front[1].hi * 10 + (lo \div Limb)
                 IN IF hi >= Limb THEN None
                    ELSE Some([hi |-> hi, lo |-> lo % Limb])

\* str::parse::<u32>().ok(): Some(n) when the text is an optional "+"
\* followed by at least one decimal digit and the value fits u32
parse_u32(s) ==
    LET digits == IF s # <<>> /\ s[1] = "+" THEN Tail(s) ELSE s
    IN IF /\ digits # <<>>
          /\ \A i \in 1..Len(digits) : DigitValue(digits[i]) >= 0
       THEN DecimalValue(digits)
       ELSE None

\* ------------------------------------------------------------------------
\* WebhookHandler::create_endpoint, delete_endpoint, update_endpoint
\*
\* env is the behaviour of the provider during the call:
\*   env.list        the Result of list_records
\*   env.remove_fail k > 0: the k-th remove_record call fails; 0: none fails
\*   env.add_fail    k > 0: the k-th add_record call fails; 0: none fails
\* Each operator returns the Result of the helper, the provider calls it
\* issued, in order, and the helpers it entered.
\* ------------------------------------------------------------------------
ProviderError == Error("NjallaApi", <<>>)

Outcome(res, calls, trace) == [res |-> res, calls |-> calls, trace |-> trace]

\* one entry of the trace: the helper entered, the endpoint it was given and
\* what it returned
Entered(fn, endpoint, res) ==
    <<[fn |-> fn, dns_name |-> endpoint.dns_name, res |-> res]>>

\* endpoint.provider_specific.iter().find(|ps| ps.name == "priority")
\*     .and_then(|ps| ps.value.parse().ok())
priority_of(endpoint) ==
    LET ps   == endpoint.provider_specific
        hits == {i \in 1..Len(ps) : ps[i].name = "priority"}
    IN IF hits = {} THEN None
       ELSE parse_u32(ps[CHOOSE i \in hits : \A j \in hits : i <= j].value)

\* the loop over endpoint.targets without the dry_run test: every request
\* is sent
RECURSIVE create_targets_always_sends(_, _, _, _, _, _)
create_targets_always_sends(cfg, endpoint, zone, name, env, i) ==
    IF i > Len(endpoint.targets) THEN Outcome(Ok(<<>>), <<>>, <<>>)
    ELSE LET request == [domain      |-> zone,
                         name        |-> name,
                         record_type |-> endpoint.record_type,
                         content     |-> endpoint.targets[i],
                         ttl         |-> as_u32(IF endpoint.record_ttl = None
                                                THEN DefaultTtl
                                                ELSE endpoint.record_ttl[1]),
                         priority    |-> priority_of(endpoint)]
         IN IF env.add_fail = i
            THEN Outcome(Err(ProviderError), <<AddRecordCall(request)>>, <<>>)
            ELSE LET rest == create_targets_always_sends(cfg, endpoint, zone, name,
                                                         env, i + 1)
                 IN Outcome(rest.res, <<AddRecordCall(request)>> \o rest.calls, <<>>)

\* the loop over endpoint.targets, from target i on
RECURSIVE create_targets(_, _, _, _, _, _)
create_targets(cfg, endpoint, zone, name, env, i) ==
    IF i > Len(endpoint.targets) THEN Outcome(Ok(<<>>), <<>>, <<>>)
    ELSE LET request == [domain      |-> zone,
                         name        |-> name,
                         record_type |-> endpoint.record_type,
                         content     |-> endpoint.targets[i],
                         ttl         |-> as_u32(IF endpoint.record_ttl = None
                                                THEN DefaultTtl
                                                ELSE endpoint.record_ttl[1]),
                         priority    |-> priority_of(endpoint)]
         IN IF cfg.dry_run
            THEN create_targets(cfg, endpoint, zone, name, env, i + 1)
            ELSE IF env.add_fail = i
                 THEN Outcome(Err(ProviderError), <<AddRecordCall(request)>>, <<>>)
                 ELSE LET rest == create_targets(cfg, endpoint, zone, name, env, i + 1)
                      IN Outcome(rest.res, <<AddRecordCall(request)>> \o rest.calls, <<>>)

create_endpoint(cfg, endpoint, env) ==
    LET zone == extract_zone(cfg, endpoint.dns_name)
    IN IF ~zone.ok
       THEN Outcome(Err(zone.err), <<>>, Entered("create_endpoint", endpoint, Err(zone.err)))
       ELSE IF ~is_domain_allowed(cfg, zone.val)
            THEN Outcome(Err(Error("DomainNotAllowed", zone.val)), <<>>,
                         Entered("create_endpoint", endpoint,
                                 Err(Error("DomainNotAllowed", zone.val))))
            ELSE LET name == extract_record_name(endpoint.dns_name, zone.val)
                     loop == create_targets(cfg, endpoint, zone.val, name, env, 1)
                 IN Outcome(loop.res, loop.calls, Entered("create_endpoint", endpoint, loop.res))

\* Vec::contains
contains(seq, x) == \E i \in 1..Len(seq) : seq[i] = x

\* a match that does not compare the names
record_matches_any_name(record, endpoint, name) ==
    /\ record.record_type = endpoint.record_type
    /\ contains(endpoint.targets, record.content)

\* the condition under which delete_endpoint removes a live record
record_matches(record, endpoint, name) ==
    LET record_name == IF record.name = <<>> \/ record.name = <<"@">>
                       THEN <<>>
                       ELSE record.name
    IN /\ record_name = name
       /\ record.record_type = endpoint.record_type
       /\ contains(endpoint.targets, record.content)

\* a loop in which a failing remove_record does not end the delete: the
\* other matches are still removed and the first failure is returned
RECURSIVE delete_records_continues(_, _, _, _, _, _, _, _)
delete_records_continues(cfg, endpoint, zone, name, records, env, i, removed) ==
    IF i > Len(records) THEN Outcome(Ok(<<>>), <<>>, <<>>)
    ELSE IF ~record_matches(records[i], endpoint, name) \/ cfg.dry_run
         THEN delete_records_continues(cfg, endpoint, zone, name, records, env,
                                       i + 1, removed)
         ELSE LET request == [domain |-> zone, id |-> records[i].id]
                  rest    == delete_records_continues(cfg, endpoint, zone, name,
                                                      records, env, i + 1, removed + 1)
              IN Outcome(IF env.remove_fail = removed + 1
                         THEN Err(ProviderError) ELSE rest.res,
                         <<RemoveRecordCall(request)>> \o rest.calls, <<>>)

\* the loop over the listed records, from record i on; removed counts the
\* remove_record calls issued so far
RECURSIVE delete_records(_, _, _, _, _, _, _, _)
delete_records(cfg, endpoint, zone, name, records, env, i, removed) ==
    IF i > Len(records) THEN Outcome(Ok(<<>>), <<>>, <<>>)
    ELSE IF ~record_matches(records[i], endpoint, name) \/ cfg.dry_run
         THEN delete_records(cfg, endpoint, zone, name, records, env, i + 1, removed)
         ELSE LET request == [domain |-> zone, id |-> records[i].id]
              IN IF env.remove_fail = removed + 1
                 THEN Outcome(Err(ProviderError), <<RemoveRecordCall(request)>>, <<>>)
                 ELSE LET rest == delete_records(cfg, endpoint, zone, name, records,
                                                 env, i + 1, removed + 1)
                      IN Outcome(rest.res, <<RemoveRecordCall(request)>> \o rest.calls,
                                 <<>>)

delete_endpoint(cfg, endpoint, env) ==
    LET zone == extract_zone(cfg, endpoint.dns_name)
    IN IF ~zone.ok
       THEN Outcome(Err(zone.err), <<>>, Entered("delete_endpoint", endpoint, Err(zone.err)))
       ELSE IF ~is_domain_allowed(cfg, zone.val)
            THEN Outcome(Err(Error("DomainNotAllowed", zone.val)), <<>>,
                         Entered("delete_endpoint", endpoint,
                                 Err(Error("DomainNotAllowed", zone.val))))
            ELSE IF ~env.list.ok
                 THEN Outcome(Err(env.list.err), <<ListRecordsCall(zone.val)>>,
                              Entered("delete_endpoint", endpoint, Err(env.list.err)))
                 ELSE LET name == extract_record_name(endpoint.dns_name, zone.val)
                          loop == delete_records(cfg, endpoint, zone.val, name,
                                                 env.list.val, env, 1, 0)
                      IN Outcome(loop.res, <<ListRecordsCall(zone.val)>> \o loop.calls,
                                 Entered("delete_endpoint", endpoint, loop.res))

\* an update that creates the new endpoint whether or not the delete of the
\* old one failed, and reports the first failure
update_endpoint_continues(cfg, old, new, env) ==
    LET d == delete_endpoint(cfg, old, env)
        c == create_endpoint(cfg, new, env)
    IN Outcome(IF d.res.ok THEN c.res ELSE d.res, d.calls \o c.calls,
               d.trace \o c.trace)

\* an update that creates the new endpoint before it deletes the old one
update_endpoint_create_first(cfg, old, new, env) ==
    LET c == create_endpoint(cfg, new, env)
    IN IF ~c.res.ok THEN c
       ELSE LET d == delete_endpoint(cfg, old, env)
            IN Outcome(d.res, c.calls \o d.calls, c.trace \o d.trace)

update_endpoint(cfg, old, new, env) ==
    LET d == delete_endpoint(cfg, old, env)
    IN IF ~d.res.ok THEN d
       ELSE LET c == create_endpoint(cfg, new, env)
            IN Outcome(c.res, d.calls \o c.calls, d.trace \o c.trace)

\* an emptiness test with the test of the delete list inverted
is_empty_inverted_delete(changes) ==
    /\ changes.create = <<>>
    /\ changes.update_old = <<>>
    /\ changes.update_new = <<>>
    /\ changes.delete # <<>>

\* Changes::is_empty (src/webhook/types.rs)
is_empty(changes) ==
    /\ changes.create = <<>>
    /\ changes.update_old = <<>>
    /\ changes.update_new = <<>>
    /\ changes.delete = <<>>

\* ------------------------------------------------------------------------
\* Endpoint::from_njalla_record (src/webhook/types.rs) and
\* WebhookHandler::get_records
\* ------------------------------------------------------------------------
DigitChar(d) ==
    CASE d = 0 -> "0" [] d = 1 -> "1" [] d = 2 -> "2" [] d = 3 -> "3"
      [] d = 4 -> "4" [] d = 5 -> "5" [] d = 6 -> "6" [] d = 7 -> "7"
      [] d = 8 -> "8" [] d = 9 -> "9"

\* u32::to_string: the decimal digits of hi * 65536 + lo, by long division
RECURSIVE u32_to_string(_)
u32_to_string(v) ==
    LET mid      == (v.hi % 10) * Limb + v.lo
        quotient == [hi |-> v.hi \div 10, lo |-> mid \div 10]
    IN IF quotient = [hi |-> 0, lo |-> 0]
       THEN <<DigitChar(mid % 10)>>
       ELSE Append(u32_to_string(quotient), DigitChar(mid % 10))

\* `ttl as i64` for a u32 ttl: the same number (the ttl of every record of
\* the model is below 2^31)
u32_as_i64(v) == v.hi * Limb + v.lo

\* a translation without the branch for names that already end with the zone
from_njalla_record_always_joins(record, zone) ==
    [dns_name          |-> IF record.name = <<>> \/ record.name = <<"@">>
                           THEN zone
                           ELSE record.name \o <<Dot>> \o zone,
     targets           |-> <<record.content>>,
     record_type       |-> record.record_type,
     record_ttl        |-> IF record.ttl = None THEN None
                           ELSE Some(u32_as_i64(record.ttl[1])),
     provider_specific |-> IF record.priority = None THEN <<>>
                           ELSE <<[name  |-> "priority",
                                   value |-> u32_to_string(record.priority[1])]>>]

\* labels and set_identifier, always None, are left out of the endpoint
from_njalla_record(record, zone) ==
    [dns_name          |-> IF record.name = <<>> \/ record.name = <<"@">>
                           THEN zone
                           ELSE IF ends_with(record.name, zone)
                                THEN record.name
                                ELSE record.name \o <<Dot>> \o zone,
     targets           |-> <<record.content>>,
     record_type       |-> record.record_type,
     record_ttl        |-> IF record.ttl = None THEN None
                           ELSE Some(u32_as_i64(record.ttl[1])),
     provider_specific |-> IF record.priority = None THEN <<>>
                           ELSE <<[name  |-> "priority",
                                   value |-> u32_to_string(record.priority[1])]>>]

\* a filter that also lets NS records through
is_supported_type_with_ns(record_type) ==
    record_type \in {"A", "AAAA", "CNAME", "TXT", "MX", "SRV", "NS"}

\* the matches! of the filter closure of get_records
is_supported_type(record_type) ==
    record_type \in {"A", "AAAA", "CNAME", "TXT", "MX", "SRV"}

\* records.iter().filter(..).map(..).collect(), from record i on
RECURSIVE filter_map_records(_, _, _)
filter_map_records(records, zone_name, i) ==
    IF i > Len(records) THEN <<>>
    ELSE IF is_supported_type(records[i].record_type)
         THEN <<from_njalla_record(records[i], zone_name)>>
                  \o filter_map_records(records, zone_name, i + 1)
         ELSE filter_map_records(records, zone_name, i + 1)

\* q is the query, list the Result of list_records; the operator returns the
\* Result of the handler and the provider calls it issued
get_records(cfg, q, list) ==
    IF q.zone_name = None
    THEN [res |-> Err(Error("InvalidRequest", "zone parameter is required")),
          calls |-> <<>>]
    ELSE LET zone_name == q.zone_name[1]
         IN IF ~is_domain_allowed(cfg, zone_name)
            THEN [res |-> Err(Error("DomainNotAllowed", zone_name)), calls |-> <<>>]
            ELSE IF ~list.ok
                 THEN [res |-> Err(list.err), calls |-> <<ListRecordsCall(zone_name)>>]
                 ELSE [res   |-> Ok(filter_map_records(list.val, zone_name, 1)),
                       calls |-> <<ListRecordsCall(zone_name)>>]


\* ------------------------------------------------------------------------
\* JsonRpcRequest::new (src/njalla/types.rs): the request id
\* ------------------------------------------------------------------------
\* `REQUEST_ID + 1` on a u32 that wraps at 2^32 (a build with overflow checks
\* panics there instead; no run of the model gets that far)
wrapping_add_one(v) ==
    IF v.lo + 1 < Limb THEN [hi |-> v.hi, lo |-> v.lo + 1]
    ELSE [hi |-> (v.hi + 1) % Limb, lo |-> 0]

\* ------------------------------------------------------------------------
\* State
\* ------------------------------------------------------------------------
VARIABLES
    config,         \* Config: domain_filter and dry_run
    request,        \* ApplyChangesRequest.changes of the running apply_changes
    pc,             \* where apply_changes is: start, delete, update, create,
                    \* aggregate, done
    idx,            \* the position of the running loop in its list
    applied_count,  \* apply_changes: applied_count
    errors,         \* apply_changes: errors
    response,       \* None, or Some(Result) once apply_changes has returned
    calls,          \* every call that reached the Provider Gateway, in order
    trace,          \* every helper entered, in order
    wet_applied,    \* applied_count of the same batch with dry_run off and
                    \* every write accepted by the provider
    wet_errors,     \* errors of that run
    provider,       \* the behaviours the Provider Gateway may show per endpoint
    dns_name,       \* argument of the zone resolver (SpecZone)
    zone_result,    \* result of the zone resolver (SpecZone)
    given_record,   \* the DnsRecord given to the record translator
    given_zone,     \* the zone given to the record translator
    translated,     \* NotRun, or the Endpoint the record translator returned
    query,          \* RecordsQuery of the running get_records
    listed,         \* the Result list_records gives to get_records
    records_response, \* NotRun, or the Result get_records returned
    REQUEST_ID,     \* static mut REQUEST_ID of JsonRpcRequest::new
    builders,       \* per thread: where its call of JsonRpcRequest::new is
    ids             \* the ids given to the requests built so far, in order

vars == <<config, request, pc, idx, applied_count, errors, response, calls, trace,
          wet_applied, wet_errors, provider, dns_name, zone_result,
          given_record, given_zone, translated, query, listed, records_response,
          REQUEST_ID, builders, ids>>

translate_vars == <<given_record, given_zone, translated>>

records_vars == <<query, listed, records_response>>

id_vars == <<REQUEST_ID, builders, ids>>

batch_vars == <<request, pc, idx, applied_count, errors, response, calls, trace,
                wet_applied, wet_errors, provider>>

NotRun == [ok |-> FALSE, val |-> <<>>, err |-> Error("NotRun", <<>>)]

EmptyChanges == [create |-> <<>>, update_old |-> <<>>, update_new |-> <<>>,
                 delete |-> <<>>]

\* zones that DOMAIN_FILTER may list
ZoneAB == <<"a", ".", "b">>

ZoneB == <<"b">>

\* the values Config::from_env can give domain_filter
DomainFilters ==
    { None, Some(<<>>), Some(<<ZoneAB>>), Some(<<ZoneB>>),
      Some(<<ZoneAB, ZoneB>>), Some(<<ZoneB, ZoneAB>>) }

\* no record translation and no get_records is running
TranslateIdle ==
    /\ given_record = <<>>
    /\ given_zone = <<>>
    /\ translated = NotRun

RecordsIdle ==
    /\ query = [zone_name |-> None]
    /\ listed = Ok(<<>>)
    /\ records_response = NotRun

\* no apply_changes is running
BatchIdle ==
    /\ request = EmptyChanges
    /\ pc = "done"
    /\ idx = 0
    /\ applied_count = 0
    /\ errors = <<>>
    /\ response = None
    /\ calls = <<>>
    /\ trace = <<>>
    /\ wet_applied = 0
    /\ wet_errors = <<>>
    /\ provider = {}

\* no thread is inside JsonRpcRequest::new and none has been
IdsIdle ==
    /\ REQUEST_ID = [hi |-> 0, lo |-> 0]
    /\ builders = <<>>
    /\ ids = <<>>

ZoneIdle ==
    /\ dns_name = <<>>
    /\ zone_result = NotRun

\* ------------------------------------------------------------------------
\* Specification of the zone resolver alone
\* ------------------------------------------------------------------------
InitZone ==
    /\ config \in [domain_filter : DomainFilters, dry_run : {FALSE}]
    /\ dns_name \in StringsUpTo(MaxLen)
    /\ zone_result = NotRun
    /\ request = EmptyChanges
    /\ pc = "done"
    /\ idx = 0
    /\ applied_count = 0
    /\ errors = <<>>
    /\ response = None
    /\ calls = <<>>
    /\ trace = <<>>
    /\ wet_applied = 0
    /\ wet_errors = <<>>
    /\ provider = {}
    /\ TranslateIdle
    /\ RecordsIdle
    /\ IdsIdle

ResolveZone ==
    /\ zone_result = NotRun
    /\ zone_result' = extract_zone(config, dns_name)
    /\ UNCHANGED <<config, dns_name, translate_vars, records_vars, id_vars>>
    /\ UNCHANGED batch_vars

NextZone == ResolveZone

SpecZone == InitZone /\ [][NextZone]_vars

\* ------------------------------------------------------------------------
\* Inputs of apply_changes
\* ------------------------------------------------------------------------
Endpoint(name, type, targets) ==
    [dns_name |-> name, targets |-> targets, record_type |-> type,
     record_ttl |-> None, provider_specific |-> <<>>]

DnsRecord(id, name, type, content) ==
    [id |-> id, name |-> name, record_type |-> type, content |-> content,
     ttl |-> None, priority |-> None]

\* a name inside the zone a.b, the apex of that zone, a name of the zone
\* ba.b whose text merely ends with "a.b", a name of the foreign zone b.a,
\* and a single label
NameInZone == <<"a", ".", "a", ".", "b">>

NameApex == <<"a", ".", "b">>

NameLookalike == <<"b", "a", ".", "b">>

NameForeign == <<"b", ".", "a">>

NameOneLabel == <<"a">>

\* the endpoints of the batches of Spec
BatchEndpoints ==
    { Endpoint(NameInZone, "A", <<"t1">>),
      Endpoint(NameForeign, "A", <<"t1">>) }

BatchFilters == { Some(<<ZoneAB>>) }

RecordA1 == DnsRecord("1", <<"a">>, "A", "t1")

RecordTxt == DnsRecord("2", <<"a">>, "TXT", "t1")

RecordA2 == DnsRecord("3", <<"a">>, "A", "t2")

RecordApex == DnsRecord("4", <<"@">>, "A", "t1")

RecordEmptyName == DnsRecord("5", <<>>, "A", "t2")

\* the behaviours of the provider in the batches of Spec
BatchEnvs ==
    [list        : {Ok(<<>>), Ok(<<RecordA1>>), Err(ProviderError)},
     remove_fail : 0..1,
     add_fail    : 0..1]

\* the endpoints, allow-lists and provider behaviours of SpecItem
ItemEndpoints ==
    { Endpoint(name, "A", targets) :
        name \in {NameInZone, NameApex, NameLookalike, NameForeign, NameOneLabel},
        targets \in {<<"t1">>, <<"t1", "t2">>} }

ItemFilters == { None, Some(<<ZoneAB>>) }

ItemEnvs ==
    [list        : { Ok(<<>>),
                     Ok(<<RecordA1, RecordTxt, RecordA2>>),
                     Ok(<<RecordApex, RecordEmptyName>>),
                     Err(ProviderError),
                     Err(Error("Network", <<>>)) },
     remove_fail : 0..2,
     add_fail    : 0..2]

\* the same provider, accepting every write
AcceptingWrites(env) == [env EXCEPT !.remove_fail = 0, !.add_fail = 0]

NotDryRun(cfg) == [cfg EXCEPT !.dry_run = FALSE]

RECURSIVE SeqsOfLen(_, _)
SeqsOfLen(S, n) ==
    IF n = 0 THEN {<<>>}
    ELSE {Append(q, x) : q \in SeqsOfLen(S, n - 1), x \in S}

Min(a, b) == IF a <= b THEN a ELSE b

Max(a, b) == IF a >= b THEN a ELSE b

\* ------------------------------------------------------------------------
\* WebhookHandler::apply_changes, one step per entry of the batch
\* ------------------------------------------------------------------------
\* the loops with the creations ahead of the updates
GroupOrder_creates_first == <<"delete", "create", "update">>

\* the three loops, in the order of the statements of apply_changes
GroupOrder == <<"delete", "update", "create">>

\* update_old.iter().zip(update_new.iter()) stops at the shorter list
NumPairs == Min(Len(request.update_old), Len(request.update_new))

\* number of iterations of each loop
LoopLen(group) ==
    CASE group = "delete" -> Len(request.delete)
      [] group = "update" -> NumPairs
      [] group = "create" -> Len(request.create)

GroupIndex(group) == CHOOSE k \in 1..Len(GroupOrder) : GroupOrder[k] = group

\* where control is when the k-th loop reaches position i of its list: in
\* that loop, in the first later loop that has an entry, or past the loops
RECURSIVE PosFrom(_, _)
PosFrom(k, i) ==
    IF k > Len(GroupOrder) THEN [pc |-> "aggregate", idx |-> 0]
    ELSE IF i <= LoopLen(GroupOrder[k]) THEN [pc |-> GroupOrder[k], idx |-> i]
         ELSE PosFrom(k + 1, 1)

Tagged(seq, group, i) ==
    [k \in 1..Len(seq) |-> [group |-> group, idx |-> i, item |-> seq[k]]]

ErrorEntry(op, name, err, group, i) ==
    [op |-> op, name |-> name, err |-> err, group |-> group, idx |-> i]

\* a loop body that propagates the first error out of apply_changes
LoopBody_propagates(outcome, wet, op, name) ==
    /\ calls' = calls \o Tagged(outcome.calls, pc, idx)
    /\ trace' = trace \o Tagged(outcome.trace, pc, idx)
    /\ IF wet.res.ok
       THEN /\ wet_applied' = wet_applied + 1
            /\ wet_errors' = wet_errors
       ELSE /\ wet_applied' = wet_applied
            /\ wet_errors' = Append(wet_errors, ErrorEntry(op, name, wet.res.err, pc, idx))
    /\ errors' = errors
    /\ IF outcome.res.ok
       THEN /\ applied_count' = applied_count + 1
            /\ pc' = PosFrom(GroupIndex(pc), idx + 1).pc
            /\ idx' = PosFrom(GroupIndex(pc), idx + 1).idx
            /\ response' = response
       ELSE /\ applied_count' = applied_count
            /\ pc' = "done"
            /\ idx' = 0
            /\ response' = Some(Err(outcome.res.err))

\* a loop body that counts a success for every entry, failed or not
LoopBody_counts_every_entry(outcome, wet, op, name) ==
    /\ calls' = calls \o Tagged(outcome.calls, pc, idx)
    /\ trace' = trace \o Tagged(outcome.trace, pc, idx)
    /\ applied_count' = applied_count + 1
    /\ errors' = IF outcome.res.ok THEN errors
                 ELSE Append(errors, ErrorEntry(op, name, outcome.res.err, pc, idx))
    /\ IF wet.res.ok
       THEN /\ wet_applied' = wet_applied + 1
            /\ wet_errors' = wet_errors
       ELSE /\ wet_applied' = wet_applied
            /\ wet_errors' = Append(wet_errors, ErrorEntry(op, name, wet.res.err, pc, idx))
    /\ pc' = PosFrom(GroupIndex(pc), idx + 1).pc
    /\ idx' = PosFrom(GroupIndex(pc), idx + 1).idx
    /\ response' = response

\* the body of each loop:
\*   if let Err(e) = ... { errors.push(..) } else { applied_count += 1 }
\* and the step of the loop. op and name are the text of the pushed message;
\* wet is the outcome of the same helper with dry_run off and every write
\* accepted.
LoopBody(outcome, wet, op, name) ==
    /\ calls' = calls \o Tagged(outcome.calls, pc, idx)
    /\ trace' = trace \o Tagged(outcome.trace, pc, idx)
    /\ IF outcome.res.ok
       THEN /\ applied_count' = applied_count + 1
            /\ errors' = errors
       ELSE /\ applied_count' = applied_count
            /\ errors' = Append(errors, ErrorEntry(op, name, outcome.res.err, pc, idx))
    /\ IF wet.res.ok
       THEN /\ wet_applied' = wet_applied + 1
            /\ wet_errors' = wet_errors
       ELSE /\ wet_applied' = wet_applied
            /\ wet_errors' = Append(wet_errors, ErrorEntry(op, name, wet.res.err, pc, idx))
    /\ pc' = PosFrom(GroupIndex(pc), idx + 1).pc
    /\ idx' = PosFrom(GroupIndex(pc), idx + 1).idx
    /\ response' = response

\* an aggregation that fails the batch as soon as one endpoint failed
aggregate_result_any_error(count, errs) ==
    IF errs # <<>> \/ count = 0
    THEN Err(Error("Internal", errs))
    ELSE IF errs = <<>>
         THEN Ok([text |-> "Successfully applied {} changes", args |-> <<count>>])
         ELSE Ok([text |-> "Applied {} changes with {} errors: {:?}",
                  args |-> <<count, Len(errs), errs>>])

\* what apply_changes returns once the loops are over
aggregate_result(count, errs) ==
    IF errs # <<>> /\ count = 0
    THEN Err(Error("Internal", errs))
    ELSE IF errs = <<>>
         THEN Ok([text |-> "Successfully applied {} changes", args |-> <<count>>])
         ELSE Ok([text |-> "Applied {} changes with {} errors: {:?}",
                  args |-> <<count, Len(errs), errs>>])

Start ==
    /\ pc = "start"
    /\ IF is_empty(request)
       THEN /\ response' = Some(Ok([text |-> "No changes to apply", args |-> <<>>]))
            /\ pc' = "done"
            /\ idx' = 0
       ELSE /\ response' = response
            /\ pc' = PosFrom(1, 1).pc
            /\ idx' = PosFrom(1, 1).idx
    /\ UNCHANGED <<config, request, applied_count, errors, calls, trace,
                   wet_applied, wet_errors, provider, dns_name, zone_result,
                   translate_vars, records_vars, id_vars>>

DeleteStep ==
    /\ pc = "delete"
    /\ \E env \in provider :
         LET endpoint == request.delete[idx]
         IN LoopBody(delete_endpoint(config, endpoint, env),
                     delete_endpoint(NotDryRun(config), endpoint, AcceptingWrites(env)),
                     "Delete", endpoint.dns_name)
    /\ UNCHANGED <<config, request, provider, dns_name, zone_result,
                   translate_vars, records_vars, id_vars>>

UpdateStep ==
    /\ pc = "update"
    /\ \E env \in provider :
         LET old == request.update_old[idx]
             new == request.update_new[idx]
         IN LoopBody(update_endpoint(config, old, new, env),
                     update_endpoint(NotDryRun(config), old, new, AcceptingWrites(env)),
                     "Update", new.dns_name)
    /\ UNCHANGED <<config, request, provider, dns_name, zone_result,
                   translate_vars, records_vars, id_vars>>

CreateStep ==
    /\ pc = "create"
    /\ \E env \in provider :
         LET endpoint == request.create[idx]
         IN LoopBody(create_endpoint(config, endpoint, env),
                     create_endpoint(NotDryRun(config), endpoint, AcceptingWrites(env)),
                     "Create", endpoint.dns_name)
    /\ UNCHANGED <<config, request, provider, dns_name, zone_result,
                   translate_vars, records_vars, id_vars>>

Aggregate ==
    /\ pc = "aggregate"
    /\ response' = Some(aggregate_result(applied_count, errors))
    /\ pc' = "done"
    /\ UNCHANGED <<config, request, idx, applied_count, errors, calls, trace,
                   wet_applied, wet_errors, provider, dns_name, zone_result,
                   translate_vars, records_vars, id_vars>>

Init ==
    /\ config \in [domain_filter : BatchFilters, dry_run : BOOLEAN]
    /\ provider = BatchEnvs
    /\ \E nd, no, nn, nc \in 0..MaxBatch :
         /\ nd + Max(no, nn) + nc <= MaxBatch
         /\ request \in [create     : SeqsOfLen(BatchEndpoints, nc),
                         update_old : SeqsOfLen(BatchEndpoints, no),
                         update_new : SeqsOfLen(BatchEndpoints, nn),
                         delete     : SeqsOfLen(BatchEndpoints, nd)]
    /\ pc = "start"
    /\ idx = 0
    /\ applied_count = 0
    /\ errors = <<>>
    /\ response = None
    /\ calls = <<>>
    /\ trace = <<>>
    /\ wet_applied = 0
    /\ wet_errors = <<>>
    /\ dns_name = <<>>
    /\ zone_result = NotRun
    /\ TranslateIdle
    /\ RecordsIdle
    /\ IdsIdle

Next == Start \/ DeleteStep \/ UpdateStep \/ CreateStep \/ Aggregate

Spec == Init /\ [][Next]_vars

\* ------------------------------------------------------------------------
\* Specification of apply_changes with fairness, for termination.
\* apply_changes is one sequential async function: the runtime keeps polling
\* it and every provider call it awaits returns (the HTTP client of the
\* provider has a request timeout), so a step that can be taken is taken.
\* ------------------------------------------------------------------------
\* most entries of one batch of SpecFair
MaxFairBatch == 2

InitFair ==
    /\ config \in [domain_filter : BatchFilters, dry_run : BOOLEAN]
    /\ provider = BatchEnvs
    /\ \E nd, no, nn, nc \in 0..MaxFairBatch :
         /\ nd + Max(no, nn) + nc <= MaxFairBatch
         /\ request \in [create     : SeqsOfLen(BatchEndpoints, nc),
                         update_old : SeqsOfLen(BatchEndpoints, no),
                         update_new : SeqsOfLen(BatchEndpoints, nn),
                         delete     : SeqsOfLen(BatchEndpoints, nd)]
    /\ pc = "start"
    /\ idx = 0
    /\ applied_count = 0
    /\ errors = <<>>
    /\ response = None
    /\ calls = <<>>
    /\ trace = <<>>
    /\ wet_applied = 0
    /\ wet_errors = <<>>
    /\ ZoneIdle
    /\ TranslateIdle
    /\ RecordsIdle
    /\ IdsIdle

SpecFair == InitFair /\ [][Next]_vars /\ WF_vars(Next)

\* ------------------------------------------------------------------------
\* Specification of apply_changes on a batch of one entry (one delete
\* endpoint, one update pair or one create endpoint), for every endpoint of
\* ItemEndpoints and a provider whose behaviour is fixed at the start
\* ------------------------------------------------------------------------
ItemBatches ==
    {[EmptyChanges EXCEPT !.delete = <<e>>] : e \in ItemEndpoints}
        \cup {[EmptyChanges EXCEPT !.create = <<e>>] : e \in ItemEndpoints}
        \cup {[EmptyChanges EXCEPT !.update_old = <<old>>, !.update_new = <<new>>] :
                  old \in ItemEndpoints, new \in ItemEndpoints}

InitItem ==
    /\ config \in [domain_filter : ItemFilters, dry_run : BOOLEAN]
    /\ request \in ItemBatches
    /\ \E env \in ItemEnvs : provider = {env}
    /\ pc = "start"
    /\ idx = 0
    /\ applied_count = 0
    /\ errors = <<>>
    /\ response = None
    /\ calls = <<>>
    /\ trace = <<>>
    /\ wet_applied = 0
    /\ wet_errors = <<>>
    /\ dns_name = <<>>
    /\ zone_result = NotRun
    /\ TranslateIdle
    /\ RecordsIdle
    /\ IdsIdle

SpecItem == InitItem /\ [][Next]_vars

\* ------------------------------------------------------------------------
\* Specification of apply_changes on a batch of one create endpoint, for
\* endpoints that carry a ttl and provider-specific attributes
\* ------------------------------------------------------------------------
Attribute(name, value) == [name |-> name, value |-> value]

\* the values of Endpoint.provider_specific
CreateAttributes ==
    { <<>>,
      <<Attribute("priority", <<"1", "0">>)>>,
      <<Attribute("priority", <<"x">>)>>,
      <<Attribute("priority", <<"-", "1">>)>>,
      <<Attribute("priority", <<>>)>>,
      <<Attribute("weight", <<"5">>)>>,
      <<Attribute("weight", <<"5">>), Attribute("priority", <<"1", "0">>)>> }

\* the values of Endpoint.record_ttl, an Option<i64>
CreateTtls == {None, Some(0), Some(300), Some(86400), Some(-1)}

CreateEndpoints ==
    [dns_name          : {NameInZone, NameApex},
     targets           : {<<"t1">>, <<"t1", "t2">>},
     record_type       : {"A", "MX"},
     record_ttl        : CreateTtls,
     provider_specific : CreateAttributes]

CreateEnvs == [list : {Ok(<<>>)}, remove_fail : {0}, add_fail : 0..2]

InitCreate ==
    /\ config \in [domain_filter : ItemFilters, dry_run : BOOLEAN]
    /\ request \in {[EmptyChanges EXCEPT !.create = <<e>>] : e \in CreateEndpoints}
    /\ \E env \in CreateEnvs : provider = {env}
    /\ pc = "start"
    /\ idx = 0
    /\ applied_count = 0
    /\ errors = <<>>
    /\ response = None
    /\ calls = <<>>
    /\ trace = <<>>
    /\ wet_applied = 0
    /\ wet_errors = <<>>
    /\ ZoneIdle
    /\ TranslateIdle
    /\ RecordsIdle
    /\ IdsIdle

NextCreate == Start \/ CreateStep \/ Aggregate

SpecCreate == InitCreate /\ [][NextCreate]_vars

\* ------------------------------------------------------------------------
\* Specification of the record translator alone
\* ------------------------------------------------------------------------
\* the names a provider record may carry: every string over Chars, and "@"
RecordNames == StringsUpTo(MaxLen) \cup {<<"@">>}

TranslatedRecords ==
    [id          : {"1"},
     name        : RecordNames,
     record_type : {"A"},
     content     : {"t1"},
     ttl         : {None, Some([hi |-> 0, lo |-> 300])},
     priority    : {None, Some([hi |-> 1, lo |-> 34464])}]

InitTranslate ==
    /\ config = [domain_filter |-> None, dry_run |-> FALSE]
    /\ given_record \in TranslatedRecords
    /\ given_zone \in {ZoneAB, ZoneB}
    /\ translated = NotRun
    /\ RecordsIdle
    /\ IdsIdle
    /\ BatchIdle
    /\ ZoneIdle

Translate ==
    /\ translated = NotRun
    /\ translated' = from_njalla_record(given_record, given_zone)
    /\ UNCHANGED <<config, given_record, given_zone, dns_name, zone_result, records_vars,
                   id_vars>>
    /\ UNCHANGED batch_vars

NextTranslate == Translate

SpecTranslate == InitTranslate /\ [][NextTranslate]_vars

\* ------------------------------------------------------------------------
\* Specification of GET /records
\* ------------------------------------------------------------------------
\* most records in one answer of list_records
MaxRecords == 3

\* the records a zone may hold: supported types, and the types NS, CAA and
\* a lower-case "a" that the filter does not name
ListedRecords ==
    { DnsRecord("1", <<"a">>, "A", "t1"),
      DnsRecord("2", <<"@">>, "AAAA", "t2"),
      DnsRecord("3", <<"b">>, "CNAME", "t3"),
      DnsRecord("4", <<>>, "TXT", "t4"),
      [DnsRecord("5", <<"a">>, "MX", "t5") EXCEPT !.priority = Some([hi |-> 0, lo |-> 10])],
      [DnsRecord("6", <<"a">>, "SRV", "t6") EXCEPT !.ttl = Some([hi |-> 0, lo |-> 300])],
      DnsRecord("7", <<"@">>, "NS", "t7"),
      DnsRecord("8", <<"a">>, "CAA", "t8"),
      DnsRecord("9", <<"a">>, "a", "t9") }

RecordLists == UNION {SeqsOfLen(ListedRecords, n) : n \in 0..MaxRecords}

InitRecords ==
    /\ config \in [domain_filter : ItemFilters, dry_run : {FALSE}]
    /\ query \in [zone_name : {None, Some(ZoneAB), Some(NameForeign)}]
    /\ listed \in {Ok(records) : records \in RecordLists} \cup {Err(ProviderError)}
    /\ records_response = NotRun
    /\ TranslateIdle
    /\ IdsIdle
    /\ BatchIdle
    /\ ZoneIdle

GetRecords ==
    /\ records_response = NotRun
    /\ LET out == get_records(config, query, listed)
       IN /\ records_response' = out.res
          /\ calls' = calls \o out.calls
    /\ UNCHANGED <<config, request, pc, idx, applied_count, errors, response, trace,
                   wet_applied, wet_errors, provider, dns_name, zone_result,
                   translate_vars, query, listed, id_vars>>

NextRecords == GetRecords

SpecRecords == InitRecords /\ [][NextRecords]_vars

\* ------------------------------------------------------------------------
\* Specification of the request ids. The handlers of concurrent HTTP
\* requests run on the worker threads of the tokio runtime, and each
\* provider call builds its request with JsonRpcRequest::new. The body
\* `REQUEST_ID += 1; REQUEST_ID` on the unsynchronised static is a load, a
\* store of the sum and the value of the block, which the build may take
\* from the register that holds the sum or by a second load.
\* ------------------------------------------------------------------------
\* the threads that build requests, and most requests built in one run
NumThreads == 2

MaxRequests == 4

Threads == 1..NumThreads

Idle == [pc |-> "idle", reg |-> [hi |-> 0, lo |-> 0], built |-> 0]

\* the requests whose construction has begun
Begun == Len(ids) + Cardinality({t \in Threads : builders[t].pc # "idle"})

InitIds ==
    /\ config = [domain_filter |-> None, dry_run |-> FALSE]
    /\ REQUEST_ID = [hi |-> 0, lo |-> 0]
    /\ builders = [t \in Threads |-> Idle]
    /\ ids = <<>>
    /\ TranslateIdle
    /\ RecordsIdle
    /\ BatchIdle
    /\ ZoneIdle

\* thread t enters JsonRpcRequest::new and loads REQUEST_ID; built is the
\* number of requests already built at that moment
LoadId(t) ==
    /\ builders[t].pc = "idle"
    /\ Begun < MaxRequests
    /\ builders' = [builders EXCEPT ![t] = [pc |-> "loaded", reg |-> REQUEST_ID,
                                            built |-> Len(ids)]]
    /\ UNCHANGED <<REQUEST_ID, ids>>

\* thread t stores the sum
StoreId(t) ==
    /\ builders[t].pc = "loaded"
    /\ REQUEST_ID' = wrapping_add_one(builders[t].reg)
    /\ builders' = [builders EXCEPT ![t].pc = "stored"]
    /\ UNCHANGED ids

\* thread t takes the value of the block as the id of its request
TakeId(t) ==
    /\ builders[t].pc = "stored"
    /\ \E id \in {wrapping_add_one(builders[t].reg), REQUEST_ID} :
         ids' = Append(ids, [thread |-> t, id |-> id, built |-> builders[t].built])
    /\ builders' = [builders EXCEPT ![t] = Idle]
    /\ UNCHANGED REQUEST_ID

NextIds ==
    \E t \in Threads :
        /\ LoadId(t) \/ StoreId(t) \/ TakeId(t)
        /\ UNCHANGED <<config, dns_name, zone_result, translate_vars, records_vars>>
        /\ UNCHANGED batch_vars

SpecIds == InitIds /\ [][NextIds]_vars

\* ------------------------------------------------------------------------
\* Vocabulary of the properties of apply_changes
\* ------------------------------------------------------------------------
GroupRank(group) ==
    CASE group = "delete" -> 1 [] group = "update" -> 2 [] group = "create" -> 3

\* entry a of a log does not come after entry b in the fixed order
NotAfter(a, b) ==
    \/ GroupRank(a.group) < GroupRank(b.group)
    \/ a.group = b.group /\ a.idx <= b.idx

Finished == pc = "done" /\ ~is_empty(request)

\* the entries the loops have to process
Items ==
    {<<"delete", i>> : i \in 1..Len(request.delete)}
        \cup {<<"update", i>> :
                 i \in 1..Min(Len(request.update_old), Len(request.update_new))}
        \cup {<<"create", i>> : i \in 1..Len(request.create)}

Attempted(item) ==
    \E k \in 1..Len(trace) : trace[k].group = item[1] /\ trace[k].idx = item[2]

WriteMethods == {"add-record", "remove-record"}

OnlyCreates ==
    /\ request.delete = <<>>
    /\ request.update_old = <<>>
    /\ request.update_new = <<>>
    /\ request.create # <<>>

AllListsEmpty ==
    /\ Len(request.create) = 0
    /\ Len(request.update_old) = 0
    /\ Len(request.update_new) = 0
    /\ Len(request.delete) = 0

\* ------------------------------------------------------------------------
\* C1: the provider calls of one apply_changes are issued in a fixed order:
\* all calls of delete endpoints, then all calls of update pairs, then all
\* calls of create endpoints; inside a group in list order; and update pair
\* i deletes update_old[i] and then creates update_new[i].
\* ------------------------------------------------------------------------
C1_FixedOrder ==
    /\ \A j, k \in 1..Len(calls) : j < k => NotAfter(calls[j], calls[k])
    /\ \A j, k \in 1..Len(trace) :
          j < k =>
            /\ NotAfter(trace[j], trace[k])
            /\ (trace[j].group = trace[k].group /\ trace[j].idx = trace[k].idx) =>
                  /\ trace[j].group = "update"
                  /\ trace[j].item.fn = "delete_endpoint"
                  /\ trace[k].item.fn = "create_endpoint"
    /\ \A k \in 1..Len(trace) :
          LET t == trace[k]
          IN CASE t.group = "delete" ->
                    /\ t.item.fn = "delete_endpoint"
                    /\ t.item.dns_name = request.delete[t.idx].dns_name
               [] t.group = "update" ->
                    \/ /\ t.item.fn = "delete_endpoint"
                       /\ t.item.dns_name = request.update_old[t.idx].dns_name
                    \/ /\ t.item.fn = "create_endpoint"
                       /\ t.item.dns_name = request.update_new[t.idx].dns_name
               [] t.group = "create" ->
                    /\ t.item.fn = "create_endpoint"
                    /\ t.item.dns_name = request.create[t.idx].dns_name
    /\ \A k \in 1..Len(calls) :
          LET c == calls[k]
          IN /\ c.group = "delete" => c.item.method \in {"list-records", "remove-record"}
             /\ c.group = "create" => c.item.method = "add-record"
             /\ c.group = "update" /\ c.item.method = "add-record" =>
                   \A j \in (k + 1)..Len(calls) :
                       (calls[j].group = "update" /\ calls[j].idx = c.idx) =>
                           calls[j].item.method = "add-record"

\* a finished batch that issued calls for a delete endpoint, then for an
\* update pair (its delete and its create), then for a create endpoint
C1_Witness ==
    /\ Finished
    /\ \E i, j, k, l \in 1..Len(calls) :
          /\ i < j /\ j < k /\ k < l
          /\ calls[i].group = "delete"
          /\ calls[j].group = "update" /\ calls[j].item.method = "list-records"
          /\ calls[k].group = "update" /\ calls[k].item.method = "add-record"
          /\ calls[l].group = "create"

\* ------------------------------------------------------------------------
\* C3: a finished non-empty batch returns Internal exactly when the error
\* list is non-empty and the success count is zero; otherwise it returns
\* success with a message that carries the success count and, when an
\* endpoint failed, the number of failures. Two creates of which one fails
\* give success with count 1 and 1 error; a batch of only creates that all
\* fail gives Internal.
\* ------------------------------------------------------------------------
C3_Aggregation ==
    Finished =>
        LET r == response[1]
        IN /\ response # None
           /\ (~r.ok) <=> (errors # <<>> /\ applied_count = 0)
           /\ ~r.ok => r.err.kind = "Internal"
           /\ r.ok => /\ r.val.args[1] = applied_count
                      /\ errors # <<>> => r.val.args[2] = Len(errors)
           /\ (OnlyCreates /\ Len(request.create) = 2 /\ Len(errors) = 1) =>
                  /\ r.ok
                  /\ r.val.args[1] = 1
                  /\ r.val.args[2] = 1
           /\ (OnlyCreates /\ Len(errors) = Len(request.create)) => ~r.ok

\* two creates, one of which failed
C3_Witness ==
    /\ Finished
    /\ OnlyCreates
    /\ Len(request.create) = 2
    /\ Len(errors) = 1
    /\ response[1].ok

PairTrace(i) == SelectSeq(trace, LAMBDA t : t.group = "update" /\ t.idx = i)

PairErrors(i) == SelectSeq(errors, LAMBDA e : e.group = "update" /\ e.idx = i)

PairCalls(i) == SelectSeq(calls, LAMBDA c : c.group = "update" /\ c.idx = i)

FailedSteps(i) == SelectSeq(PairTrace(i), LAMBDA t : ~t.item.res.ok)

PairProcessed(i) == PairTrace(i) # <<>>

DeleteStepFailed(i) ==
    /\ PairProcessed(i)
    /\ PairTrace(i)[1].item.fn = "delete_endpoint"
    /\ ~PairTrace(i)[1].item.res.ok

C5_DryRun ==
    config.dry_run =>
        /\ \A k \in 1..Len(calls) : calls[k].item.method \notin WriteMethods
        /\ applied_count = wet_applied
        /\ errors = wet_errors
        /\ Finished =>
              LET r == response[1]
              IN /\ r.ok <=> ~(wet_errors # <<>> /\ wet_applied = 0)
                 /\ r.ok => r.val.args[1] = wet_applied
                 /\ (r.ok /\ wet_errors # <<>>) => r.val.args[2] = Len(wet_errors)

\* a dry run over a delete endpoint with a matching live record, an update
\* pair and a create endpoint, all reported as applied
C5_Witness ==
    /\ config.dry_run
    /\ Finished
    /\ Len(request.delete) = 1
    /\ Len(request.update_old) = 1
    /\ Len(request.update_new) = 1
    /\ Len(request.create) = 1
    /\ applied_count = 3
    /\ response[1].ok
    /\ Len(calls) = 2

\* ------------------------------------------------------------------------
\* Vocabulary of the properties checked on a batch of one entry (SpecItem)
\* ------------------------------------------------------------------------
\* the behaviour of the provider in this run
TheEnv == CHOOSE env \in provider : TRUE

Untagged(log) == [k \in 1..Len(log) |-> log[k].item]

ItemDone == pc \in {"aggregate", "done"}

IsDeleteItem == Len(request.delete) = 1

IsCreateItem == Len(request.create) = 1

IsPairItem == Len(request.update_old) = 1 /\ Len(request.update_new) = 1

\* the endpoint of a single delete or create entry
TheEndpoint == IF IsDeleteItem THEN request.delete[1] ELSE request.create[1]

AllowedZones ==
    IF config.domain_filter = None THEN {}
    ELSE {config.domain_filter[1][i] : i \in 1..Len(config.domain_filter[1])}

\* ------------------------------------------------------------------------
\* C6: with an allow-list configured, a create or delete endpoint whose
\* resolved zone is not one of the allowed zones fails with DomainNotAllowed
\* and causes no provider call: no call is ever issued with a domain that is
\* not a configured zone.
\* ------------------------------------------------------------------------
C6_AllowList ==
    config.domain_filter # None =>
        /\ \A k \in 1..Len(calls) : calls[k].item.domain \in AllowedZones
        /\ (/\ ItemDone
            /\ IsDeleteItem \/ IsCreateItem
            /\ extract_zone(config, TheEndpoint.dns_name).ok
            /\ extract_zone(config, TheEndpoint.dns_name).val \notin AllowedZones) =>
              /\ calls = <<>>
              /\ Len(errors) = 1
              /\ errors[1].err.kind = "DomainNotAllowed"

\* ------------------------------------------------------------------------
\* C7: deleting an endpoint that matches no live record
\* ------------------------------------------------------------------------
NormalName(record) == IF record.name = <<"@">> THEN <<>> ELSE record.name

LiveMatch(record, endpoint, zone) ==
    /\ \/ NormalName(record) = <<>> /\ endpoint.dns_name = zone
       \/ NormalName(record) \o <<Dot>> \o zone = endpoint.dns_name
    /\ record.record_type = endpoint.record_type
    /\ \E i \in 1..Len(endpoint.targets) : endpoint.targets[i] = record.content

\* a single delete endpoint, in a zone that resolves and is allowed, has
\* been processed against a successfully listed zone no record of which
\* matches it
DeletedWithoutMatch ==
    /\ ItemDone
    /\ IsDeleteItem
    /\ LET zone == extract_zone(config, request.delete[1].dns_name)
       IN /\ zone.ok
          /\ is_domain_allowed(config, zone.val)
          /\ TheEnv.list.ok
          /\ \A k \in 1..Len(TheEnv.list.val) :
                ~LiveMatch(TheEnv.list.val[k], request.delete[1], zone.val)

\* C7 as stated: such a delete yields zero provider calls and no error, and
\* counts as a success.
C7_Original ==
    DeletedWithoutMatch =>
        /\ calls = <<>>
        /\ errors = <<>>
        /\ applied_count = 1

\* C7 amended: such a delete yields no removeRecord call and no error, and
\* counts as a success; the one listRecords call that reads the live
\* records of the zone is its only provider call.
C7_IdempotentDelete ==
    DeletedWithoutMatch =>
        /\ Len(calls) = 1
        /\ calls[1].item.method = "list-records"
        /\ calls[1].item.domain = extract_zone(config, request.delete[1].dns_name).val
        /\ errors = <<>>
        /\ applied_count = 1

\* the apex endpoint is deleted while the zone holds records of another name
C7_Witness ==
    /\ DeletedWithoutMatch
    /\ pc = "done"
    /\ ~config.dry_run
    /\ request.delete[1].dns_name = NameApex
    /\ TheEnv.list.val = <<RecordA1, RecordTxt, RecordA2>>
    /\ response[1].ok

\* ------------------------------------------------------------------------
\* C8: the provider calls of an update pair
\* ------------------------------------------------------------------------
DeleteOfOld == delete_endpoint(config, request.update_old[1], TheEnv)

CreateOfNew == create_endpoint(config, request.update_new[1], TheEnv)

C9_EmptyBatch ==
    AllListsEmpty =>
        /\ pc \in {"start", "done"}
        /\ calls = <<>>
        /\ trace = <<>>
        /\ pc = "done" =>
              /\ response # None
              /\ response[1].ok
              /\ response[1].val.text = "No changes to apply"

C9_Witness ==
    /\ AllListsEmpty
    /\ pc = "done"
    /\ response # None
    /\ calls = <<>>

\* ------------------------------------------------------------------------
\* C10: zone resolution
\* ------------------------------------------------------------------------
NumDots(s) == Cardinality({i \in 1..Len(s) : s[i] = Dot})

\* z is made of the last two dot-separated labels of f
IsLastTwoLabels(f, z) ==
    /\ ends_with(f, z)
    /\ NumDots(z) = 1
    /\ \/ Len(z) = Len(f)
       \/ f[Len(f) - Len(z)] = Dot

ConfiguredZones == IF config.domain_filter = None THEN <<>> ELSE config.domain_filter[1]

MatchingZones ==
    {i \in 1..Len(ConfiguredZones) :
        \/ dns_name = ConfiguredZones[i]
        \/ ends_with(dns_name, <<Dot>> \o ConfiguredZones[i])}

C10_FirstMatch ==
    MatchingZones # {} =>
        /\ zone_result.ok
        /\ \E i \in MatchingZones :
              /\ \A j \in MatchingZones : i <= j
              /\ zone_result.val = ConfiguredZones[i]

C10_Fallback ==
    (MatchingZones = {} /\ NumDots(dns_name) >= 1) =>
        /\ zone_result.ok
        /\ IsLastTwoLabels(dns_name, zone_result.val)

C10_Invalid == ~zone_result.ok /\ zone_result.err = Error("InvalidRequest", dns_name)

\* C10 as stated: resolveZone returns the first configured zone z with
\* fqdn == z or fqdn ending with "." + z; with no allow-list or no match it
\* returns the last two labels of fqdn; and EVERY fqdn with fewer than two
\* labels fails with InvalidRequest.
C10_Original ==
    zone_result # NotRun =>
        /\ C10_FirstMatch
        /\ C10_Fallback
        /\ (NumDots(dns_name) = 0 => C10_Invalid)

\* C10 amended: as above, but a fqdn with fewer than two labels fails with
\* InvalidRequest only when no configured zone matches it; a single-label
\* fqdn equal to a configured single-label zone resolves to that zone.
C10_ZoneResolution ==
    zone_result # NotRun =>
        /\ C10_FirstMatch
        /\ C10_Fallback
        /\ ((NumDots(dns_name) = 0 /\ MatchingZones = {}) => C10_Invalid)

\* "a.b" matches both configured zones b and a.b; the first one wins
C10_Witness ==
    /\ zone_result # NotRun
    /\ config.domain_filter = Some(<<ZoneB, ZoneAB>>)
    /\ dns_name = ZoneAB
    /\ zone_result = Ok(ZoneB)

\* ------------------------------------------------------------------------
\* Vocabulary of the properties of the record translator and of GET /records
\* ------------------------------------------------------------------------
IsApexName(name) == name = <<>> \/ name = <<"@">>

\* the text of name ends with the text of zone
HasZoneSuffix(name, zone) ==
    \E k \in 0..Len(name) : SubSeq(name, k + 1, Len(name)) = zone

SupportedTypes == {"A", "AAAA", "CNAME", "TXT", "MX", "SRV"}

\* the positions of the listed records whose type is supported
KeptIndexes ==
    {i \in 1..Len(listed.val) : listed.val[i].record_type \in SupportedTypes}

\* the k-th smallest of them
KeptIndex(k) ==
    CHOOSE i \in KeptIndexes : Cardinality({j \in KeptIndexes : j <= i}) = k

RecordsReturned == records_response # NotRun /\ records_response.ok

\* C11 as stated: every non-apex record name is joined to the zone with a
\* dot, and an empty or "@" name gives the zone
C11_Original ==
    translated # NotRun =>
        translated.dns_name =
            IF IsApexName(given_record.name) THEN given_zone
            ELSE given_record.name \o <<Dot>> \o given_zone

\* C11: for a record r in zone Z, the endpoint name is Z when r.name is empty
\* or "@", r.name unchanged when r.name is non-apex and already ends with Z,
\* and r.name + "." + Z for every other non-apex name
C11_TranslatedName ==
    translated # NotRun =>
        translated.dns_name =
            IF IsApexName(given_record.name) THEN given_zone
            ELSE IF HasZoneSuffix(given_record.name, given_zone)
                 THEN given_record.name
                 ELSE given_record.name \o <<Dot>> \o given_zone

C11_Witness ==
    /\ translated # NotRun
    /\ given_record.name = <<"a", "b">>
    /\ given_zone = ZoneAB
    /\ translated.dns_name = <<"a", "b", ".", "a", ".", "b">>

\* C12: a successful GET /records returns one endpoint for every listed
\* record whose type is A, AAAA, CNAME, TXT, MX or SRV, in the order of the
\* list, each the translation of its record, and no endpoint of another type
C12_SupportedTypesOnly ==
    RecordsReturned =>
        /\ Len(records_response.val) = Cardinality(KeptIndexes)
        /\ \A k \in 1..Len(records_response.val) :
             /\ records_response.val[k].record_type \in SupportedTypes
             /\ records_response.val[k] =
                    from_njalla_record(listed.val[KeptIndex(k)], query.zone_name[1])

C12_Witness ==
    /\ RecordsReturned
    /\ Len(listed.val) = 3
    /\ listed.val[1].record_type = "NS"
    /\ listed.val[2].record_type = "MX"
    /\ listed.val[3].record_type = "A"
    /\ Len(records_response.val) = 2
    /\ records_response.val[1].targets = <<"t5">>
    /\ records_response.val[2].targets = <<"t1">>

\* ------------------------------------------------------------------------
\* Vocabulary of the property of the request ids
\* ------------------------------------------------------------------------
\* a < b for two u32 values
LessU32(a, b) == a.hi < b.hi \/ (a.hi = b.hi /\ a.lo < b.lo)

\* C13: no two requests share an id, and a request gets an id strictly
\* greater than the id of every request that was built before its own
\* construction began, whichever threads built them
C13_MonotonicIds ==
    \A j \in 1..Len(ids) :
        \A i \in 1..(j - 1) :
            /\ ids[i].id # ids[j].id
            /\ i <= ids[j].built => LessU32(ids[i].id, ids[j].id)

\* ------------------------------------------------------------------------
\* C14: the records a delete endpoint removes
\* ------------------------------------------------------------------------
\* the k-th smallest member of a set of positions
Nth(S, k) == CHOOSE i \in S : Cardinality({j \in S : j <= i}) = k

DeleteZone == extract_zone(config, request.delete[1].dns_name).val

\* a single delete endpoint, in a zone that resolves and is allowed, has
\* been processed with dry-run off against a successfully listed zone
DeletedLive ==
    /\ ItemDone
    /\ IsDeleteItem
    /\ ~config.dry_run
    /\ extract_zone(config, request.delete[1].dns_name).ok
    /\ config.domain_filter = None \/ DeleteZone \in AllowedZones
    /\ TheEnv.list.ok

\* the positions of the live records that match the delete endpoint
LiveMatches ==
    {k \in 1..Len(TheEnv.list.val) :
        LiveMatch(TheEnv.list.val[k], request.delete[1], DeleteZone)}

\* the provider calls of the delete are listRecords and then removeRecord
\* for the first n matching records, in the order of the list
RemovesFirstMatches(n) ==
    /\ Len(calls) = 1 + n
    /\ calls[1].item = [method |-> "list-records", domain |-> DeleteZone,
                        params |-> <<>>]
    /\ \A k \in 1..n :
         calls[k + 1].item =
             [method |-> "remove-record", domain |-> DeleteZone,
              params |-> <<TheEnv.list.val[Nth(LiveMatches, k)].id>>]

\* C14 as stated: a removeRecord call is issued for every matching live
\* record and for no other, also when a removeRecord call fails
C14_Original ==
    DeletedLive => RemovesFirstMatches(Cardinality(LiveMatches))

\* C14: removeRecord calls are issued for matching live records only, in the
\* order of the list: for every match when no removeRecord call fails, and
\* otherwise for the matches up to the first one whose removeRecord fails,
\* which ends the delete with that error
C14_DeleteMatches ==
    DeletedLive =>
        IF TheEnv.remove_fail \in 1..Cardinality(LiveMatches)
        THEN /\ RemovesFirstMatches(TheEnv.remove_fail)
             /\ applied_count = 0
             /\ Len(errors) = 1
        ELSE /\ RemovesFirstMatches(Cardinality(LiveMatches))
             /\ applied_count = 1
             /\ errors = <<>>

\* two records match and the removeRecord of the first one fails
C14_Witness ==
    /\ DeletedLive
    /\ pc = "done"
    /\ request.delete[1].dns_name = NameInZone
    /\ TheEnv.list.val = <<RecordA1, RecordTxt, RecordA2>>
    /\ LiveMatches = {1, 3}
    /\ TheEnv.remove_fail = 1
    /\ Len(calls) = 2
    /\ calls[2].item.params = <<"1">>
    /\ Len(errors) = 1

\* ------------------------------------------------------------------------
\* C15: the addRecord requests of a create endpoint
\* ------------------------------------------------------------------------
CreateZone == extract_zone(config, request.create[1].dns_name).val

\* a single create endpoint, in a zone that resolves and is allowed, has
\* been processed with dry-run off by a provider that accepted every request
CreatedLive ==
    /\ ItemDone
    /\ IsCreateItem
    /\ ~config.dry_run
    /\ extract_zone(config, request.create[1].dns_name).ok
    /\ config.domain_filter = None \/ CreateZone \in AllowedZones
    /\ TheEnv.add_fail = 0

\* the name of the endpoint relative to its zone
RelativeName(name, zone) ==
    IF name = zone THEN <<>> ELSE SubSeq(name, 1, Len(name) - Len(zone) - 1)

IsDigits(s) == s # <<>> /\ \A i \in 1..Len(s) : s[i] \in {"0", "1", "2", "3", "4", "5", "6", "7", "8", "9"}

\* the number a short digit string writes
RECURSIVE NumberOf(_)
NumberOf(s) ==
    IF s = <<>> THEN 0
    ELSE NumberOf(SubSeq(s, 1, Len(s) - 1)) * 10 + DigitValue(s[Len(s)])

\* the u32 sent is the number n
SentIs(sent, n) == n >= 0 /\ sent = [hi |-> n \div Limb, lo |-> n % Limb]

\* the priority the claim expects for the attributes attrs
PriorityIs(sent, attrs) ==
    LET values == {attrs[i].value : i \in {j \in 1..Len(attrs) : attrs[j].name = "priority"}}
    IN IF \E v \in values : IsDigits(v)
       THEN \E v \in values : IsDigits(v) /\ sent # None /\ SentIs(sent[1], NumberOf(v))
       ELSE sent = None

\* C15: a create endpoint in an allowed zone gives one addRecord request per
\* target, in target order, each with the resolved zone, the relative name,
\* the endpoint type and that target as content; the ttl sent equals the
\* ttl of the endpoint when it is set and 3600 when it is unset, and the
\* priority is the value of the priority attribute when that is present and
\* an unsigned integer, and is omitted otherwise
C15_AddRequests ==
    CreatedLive =>
        LET e == request.create[1]
        IN /\ Len(calls) = Len(e.targets)
           /\ \A i \in 1..Len(calls) :
                LET sent == calls[i].item
                IN /\ sent.method = "add-record"
                   /\ sent.domain = CreateZone
                   /\ sent.params[1] = RelativeName(e.dns_name, CreateZone)
                   /\ sent.params[2] = e.record_type
                   /\ sent.params[3] = e.targets[i]
                   /\ SentIs(sent.params[4],
                             IF e.record_ttl = None THEN 3600 ELSE e.record_ttl[1])
                   /\ PriorityIs(sent.params[5], e.provider_specific)

\* ------------------------------------------------------------------------
\* C16: termination and accounting of a batch
\* ------------------------------------------------------------------------
\* the error entries of one entry of the batch
ErrorsOf(item) ==
    {k \in 1..Len(errors) : errors[k].group = item[1] /\ errors[k].idx = item[2]}

\* the entries of updateOld and updateNew without a positional partner
Unpaired(group, i) ==
    /\ group = "update"
    /\ i > Len(request.update_old) \/ i > Len(request.update_new)

\* at the end of a non-empty batch the successes and the error entries add
\* up to the entries of the batch, no entry has two error entries, every
\* entry was processed, and nothing was done for an unpaired update entry
Accounted ==
    /\ applied_count + Len(errors) =
           Len(request.delete)
               + (IF Len(request.update_old) <= Len(request.update_new)
                  THEN Len(request.update_old) ELSE Len(request.update_new))
               + Len(request.create)
    /\ \A item \in Items : Cardinality(ErrorsOf(item)) <= 1 /\ Attempted(item)
    /\ \A k \in 1..Len(errors) : <<errors[k].group, errors[k].idx>> \in Items
    /\ \A k \in 1..Len(calls) : ~Unpaired(calls[k].group, calls[k].idx)
    /\ \A k \in 1..Len(trace) : ~Unpaired(trace[k].group, trace[k].idx)

\* C16: every apply_changes call returns, and at the end of a non-empty one
\* applied_count + |errors| = |delete| + min(|updateOld|, |updateNew|) +
\* |create|, each entry having given one success or one error entry and the
\* update entries without a positional partner nothing at all
C16_TerminatesAccounted ==
    /\ <>(pc = "done" /\ response # None)
    /\ [](Finished => Accounted)

\* a finished batch of one pair that failed and an updateNew entry without
\* partner
C16_Witness ==
    /\ Finished
    /\ response # None
    /\ Len(request.update_old) = 1
    /\ Len(request.update_new) = 2
    /\ applied_count = 0
    /\ Len(errors) = 1
    /\ errors[1].group = "update"
    /\ calls # <<>>

====
